---- MODULE Spec2Model ----
(***************************************************************************)
(* The channel-based connection pool of package pool (channelPool):        *)
(* NewChannelPool, Get, GetWithTimeout, Put, Len and Close, run by         *)
(* concurrent goroutines.  The fields c.conns and conn.InUse are plain     *)
(* (unsynchronised) memory: every read and every write of them is a step   *)
(* of its own, so that the interleavings of the goroutines decide what a   *)
(* racing read sees.  The buffered channel is a FIFO of holders.           *)
(***************************************************************************)
EXTENDS Integers, Sequences, FiniteSets, TLC

\* ------------------------------------------------------------- bounds
NumCallers == 2
MaxCap == 2
MaxOps == 2

Callers == 1..NumCallers
\* the holders NewChannelPool can create: holder i is made by the i-th factory call
Holders == 1..MaxCap
\* holders the pool did not make: one fresh from NewConnectionHolder, and one that
\* is checked out of another pool (its InUse is true)
FreshHolder == MaxCap + 1
OtherPoolHolder == MaxCap + 2
ForeignHolders == {FreshHolder, OtherPoolHolder}
AllHolders == Holders \cup ForeignHolders
\* the nil *ConnectionHolder
NilConn == 0
\* the values of the field c.conns: the channel made by NewChannelPool, or nil
Chan == "chan"
NilChan == "nilchan"
\* the values of the field c.factory
FactoryFn == "factory"
NilFactory == "nilfactory"

\* the errors of the package; the nil error is the empty message
NoErr == <<>>
ErrClosed == <<"pool is closed">>
\* (faulty variant: the timer case reports no error)
ErrTimedOutNone == <<>>
ErrTimedOut == <<"timed out waiting for connection">>
\* (faulty variant: Put of nil reports no error)
ErrNilConnNone == <<>>
ErrNilConn == <<"connection is nil. rejecting">>
\* the errors a factory may return
FactoryErrs == {"dial refused", "dial timeout"}
\* fmt.Errorf("factory is not able to fill the pool: %s", err)
\* (faulty variant: the message leaves the factory's error out)
FillErrorNoCause(e) == <<"factory is not able to fill the pool: ">>
FillError(e) == <<"factory is not able to fill the pool: ", e>>

VARIABLES
    maxCap,        \* the maxCap argument of NewChannelPool
    newPc,         \* NewChannelPool: "fill" (in the loop) or "done" (returned)
    newI,          \* NewChannelPool: the loop index i
    newRet,        \* NewChannelPool: "none" (not yet returned), "pool" or "nil"
    newErr,        \* NewChannelPool: the error returned
    conns,         \* the field c.conns
    factory,       \* the field c.factory
    chanBuf,       \* the buffer of the channel, oldest first
    chanClosed,    \* whether close() was applied to the channel
    InUse,         \* the field InUse of every holder
    pc,            \* where each caller is inside its current call
    op,            \* the current (or last) call of each caller
    arg,           \* the conn argument or local variable of that call
    ch,            \* the channel the caller's select evaluated c.conns to
    ret,           \* the holder the last call returned (Len: the int)
    err,           \* the error the last call returned
    holding,       \* the holders a caller got from Get and has not passed to Put
    ops,           \* calls the caller may still start
    \* the HTTP adapter over the pool
    adPc,             \* "new" until NewPooledHttpClient has returned, then "done"
    timeout,          \* the adapter's field timeout
    OutstandingConns, \* the adapter's counter
    rq,               \* each caller's adapter request
    \* history variables (not program state)
    factoryCalls,  \* how often the factory was invoked
    factoryErr,    \* the error the factory returned, "" if it never failed
    closeState,    \* "none", "called" (a Close started) or "returned"
    everSent,      \* whether any Put ever sent a holder to the channel
    late,          \* whether the caller's current call started after a Close returned
    buf0,          \* the channel buffer when the caller's current call started
    out0,          \* whether the argument of the call was checked out of this pool then
    tookLate,      \* whether the call received its holder after a Close had returned
    prev           \* the caller's previous completed call

progVars == <<conns, factory, chanBuf, chanClosed, InUse>>
newVars == <<maxCap, newPc, newI, newRet, newErr, factoryCalls, factoryErr>>
callVars == <<pc, op, arg, ch, ret, err, holding, ops>>
adapterVars == <<adPc, timeout, OutstandingConns, rq>>
histVars == <<closeState, everSent, late, buf0, out0, tookLate, prev>>
vars == <<maxCap, newPc, newI, newRet, newErr, conns, factory, chanBuf, chanClosed,
          InUse, pc, op, arg, ch, ret, err, holding, ops, factoryCalls, factoryErr,
          closeState, everSent, late, buf0, out0, tookLate, prev,
          adPc, timeout, OutstandingConns, rq>>

\* the errors of an HTTP call
HttpErr == <<"http: request failed">>

\* no request of the adapter: the caller is outside Get, Post and Do
NoRequest ==
    [pc |-> "idle", kind |-> "none", conn |-> NilConn, err |-> NoErr, calls |-> 0,
     panicking |-> FALSE]

NoCall ==
    [op |-> "none", arg |-> NilConn, ret |-> NilConn, err |-> NoErr, buf0 |-> <<>>,
     out0 |-> FALSE]

\* ------------------------------------------------------------- the channel
\* len(ch): 0 for the nil channel
ChanLen(c) == IF c = NilChan THEN 0 ELSE Len(chanBuf)
\* a receive from ch can proceed: never on nil, else when buffered or closed
\* (faulty variant: a receive that does not wait, as a select with a default case)
RecvReadyNonBlocking(c) == c = Chan
RecvReady(c) == c = Chan /\ (chanBuf # <<>> \/ chanClosed)
\* the value a receive yields (the zero value from a closed, drained channel)
RecvValue == IF chanBuf = <<>> THEN NilConn ELSE Head(chanBuf)
\* the buffer a receive leaves
\* (faulty variant: the received holder stays in the buffer)
RecvRestKeepsHead == chanBuf
RecvRest == IF chanBuf = <<>> THEN <<>> ELSE Tail(chanBuf)
\* a send to ch can proceed: never on nil, else when the buffer has room
\* (a send on a closed channel proceeds too, and panics)
\* (faulty variant: the channel is made one slot short of maxCap)
SendReadyOneSlotShort(c) == c = Chan /\ (Len(chanBuf) < maxCap - 1 \/ chanClosed)
SendReady(c) == c = Chan /\ (Len(chanBuf) < maxCap \/ chanClosed)
\* the buffer a send of h leaves
\* (faulty variant: the holder is dropped, as by a default case taken)
SendBufDrop(h) == chanBuf
SendBuf(h) == Append(chanBuf, h)

\* the value Close stores in c.conns
\* (faulty variant: Close leaves the field as it is)
ClosedConnsKept == Chan
ClosedConns == NilChan

\* NewConnectionHolder(conn): InUse is the zero value
\* (faulty variant: a new holder is born in use)
NewConnectionHolderInUse == TRUE
NewConnectionHolder == FALSE

\* the value Get and GetWithTimeout store in conn.InUse
AcquiredInUse == TRUE
\* the value Put stores in conn.InUse
\* (faulty variant: Put leaves the flag set)
ReleasedInUseStillSet == TRUE
ReleasedInUse == FALSE

\* ------------------------------------------------------------- Init
InitWith(budget) ==
    /\ maxCap \in 0..MaxCap
    /\ newPc = "fill" /\ newI = 0 /\ newRet = "none" /\ newErr = NoErr
    /\ conns = Chan /\ factory = FactoryFn
    /\ chanBuf = <<>> /\ chanClosed = FALSE
    /\ InUse = [h \in AllHolders |-> h = OtherPoolHolder]
    /\ pc = [p \in Callers |-> "idle"]
    /\ op = [p \in Callers |-> "none"]
    /\ arg = [p \in Callers |-> NilConn]
    /\ ch = [p \in Callers |-> NilChan]
    /\ ret = [p \in Callers |-> NilConn]
    /\ err = [p \in Callers |-> NoErr]
    /\ holding = [p \in Callers |-> {}]
    /\ ops = budget
    /\ factoryCalls = 0 /\ factoryErr = ""
    /\ closeState = "none" /\ everSent = FALSE
    /\ late = [p \in Callers |-> FALSE]
    /\ buf0 = [p \in Callers |-> <<>>]
    /\ out0 = [p \in Callers |-> FALSE]
    /\ tookLate = [p \in Callers |-> FALSE]
    /\ prev = [p \in Callers |-> NoCall]
    /\ adPc = "new" /\ timeout = 0 /\ OutstandingConns = 0
    /\ rq = [p \in Callers |-> NoRequest]

\* every caller may make MaxOps calls
Init == InitWith([p \in Callers |-> MaxOps])

\* the same number of calls, all made by caller 1
InitSeq == InitWith([p \in Callers |-> IF p = 1 THEN NumCallers * MaxOps ELSE 0])

\* ------------------------------------------------------------- NewChannelPool
\* the condition of the fill loop, i < maxCap
\* (faulty variant: the loop stops one iteration early)
FillLoopRunsOneShort == newI < maxCap - 1
FillLoopRuns == newI < maxCap

\* one iteration of the fill loop whose factory call succeeds
NewChannelPoolFill ==
    /\ newPc = "fill" /\ FillLoopRuns
    /\ factoryCalls' = factoryCalls + 1
    /\ chanBuf' = Append(chanBuf, newI + 1)
    /\ InUse' = [InUse EXCEPT ![newI + 1] = NewConnectionHolder]
    /\ newI' = newI + 1
    /\ UNCHANGED <<maxCap, newPc, newRet, newErr, factoryErr, conns, factory,
                   chanClosed, callVars, histVars, adapterVars>>

\* one iteration whose factory call fails: return nil, fmt.Errorf(...)
NewChannelPoolFail ==
    /\ newPc = "fill" /\ FillLoopRuns
    /\ \E e \in FactoryErrs :
          /\ factoryErr' = e
          /\ newErr' = FillError(e)
    /\ factoryCalls' = factoryCalls + 1
    /\ newRet' = "nil"
    /\ newPc' = "done"
    /\ UNCHANGED <<maxCap, newI, progVars, callVars, histVars, adapterVars>>

\* the loop is over: return c, nil
NewChannelPoolReturn ==
    /\ newPc = "fill" /\ ~FillLoopRuns
    /\ newRet' = "pool" /\ newErr' = NoErr
    /\ newPc' = "done"
    /\ UNCHANGED <<maxCap, newI, factoryCalls, factoryErr, progVars, callVars, histVars, adapterVars>>

\* ------------------------------------------------------------- calls
Set(f, p, v) == [f EXCEPT ![p] = v]

\* an unrecovered panic ends the program
Alive == \A q \in Callers : pc[q] # "panic"

\* caller p of the running program is at label l
At(p, l) == Alive /\ pc[p] = l

\* holder h is checked out of this pool: received by a Get or GetWithTimeout and
\* not yet given back by its holder (sent to the channel by its Put, or dropped by
\* a Put that returned without sending)
IsCheckedOut(h) ==
    \E p \in Callers :
        \/ h \in holding[p]
        \/ /\ arg[p] = h
           /\ pc[p] \in {"GetMark", "GetWithTimeoutMark", "PutInUse", "PutSelect", "PutSend"}

\* caller p starts call o with argument a (only on a pool NewChannelPool returned)
Begin(p, o, a) ==
    /\ newRet = "pool" /\ At(p, "idle") /\ ops[p] > 0
    /\ ops' = Set(ops, p, ops[p] - 1)
    /\ op' = Set(op, p, o)
    /\ arg' = Set(arg, p, a)
    /\ late' = Set(late, p, closeState = "returned")
    /\ buf0' = Set(buf0, p, chanBuf)
    /\ out0' = Set(out0, p, IsCheckedOut(a))
    /\ tookLate' = Set(tookLate, p, FALSE)
    /\ prev' = Set(prev, p, [op |-> op[p], arg |-> arg[p], ret |-> ret[p],
                             err |-> err[p], buf0 |-> buf0[p], out0 |-> out0[p]])
    /\ UNCHANGED adapterVars

\* caller p goes on inside its call
Goto(p, l) ==
    /\ pc' = Set(pc, p, l)
    /\ UNCHANGED <<ret, err>>

\* the call of caller p returns (r, e)
Return(p, r, e) ==
    /\ pc' = Set(pc, p, "idle")
    /\ ret' = Set(ret, p, r)
    /\ err' = Set(err, p, e)

\* ------------------------------------------------------------- Get, GetWithTimeout
\* if c.conns == nil { return nil, ErrClosed }
ClosedCheck(p, o) ==
    /\ Begin(p, o, NilConn)
    /\ IF conns = NilChan
          THEN Return(p, NilConn, ErrClosed)
          ELSE /\ pc' = Set(pc, p, o \o "Select")
               /\ ret' = Set(ret, p, NilConn)
               /\ err' = Set(err, p, NoErr)
    /\ UNCHANGED <<ch, holding, newVars, progVars, closeState, everSent>>

\* select: the channel expression c.conns is evaluated on entry
SelectEntry(p, o) ==
    /\ At(p, o \o "Select")
    /\ ch' = Set(ch, p, conns)
    /\ Goto(p, o \o "Recv")
    /\ UNCHANGED <<op, arg, holding, ops, newVars, progVars, histVars, adapterVars>>

\* case conn := <-c.conns: if conn == nil { return nil, ErrClosed }
ReceiveCase(p, o) ==
    /\ At(p, o \o "Recv")
    /\ RecvReady(ch[p])
    /\ chanBuf' = RecvRest
    /\ arg' = Set(arg, p, RecvValue)
    /\ IF RecvValue = NilConn
          THEN Return(p, NilConn, ErrClosed)
          ELSE Goto(p, o \o "Mark")
    /\ tookLate' = Set(tookLate, p, closeState = "returned")
    /\ UNCHANGED <<op, ch, holding, ops, newVars, conns, factory, chanClosed, InUse,
                   closeState, everSent, late, buf0, out0, prev, adapterVars>>

\* conn.InUse = true; return conn, nil
MarkInUse(p, o) ==
    /\ At(p, o \o "Mark")
    /\ InUse' = [InUse EXCEPT ![arg[p]] = AcquiredInUse]
    /\ holding' = Set(holding, p, holding[p] \cup {arg[p]})
    /\ Return(p, arg[p], NoErr)
    /\ UNCHANGED <<op, arg, ch, ops, newVars, conns, factory, chanBuf, chanClosed,
                   histVars, adapterVars>>

Get(p) == ClosedCheck(p, "Get")
GetSelect(p) == SelectEntry(p, "Get")
GetRecv(p) == ReceiveCase(p, "Get")
GetMark(p) == MarkInUse(p, "Get")

GetWithTimeout(p) == ClosedCheck(p, "GetWithTimeout")
GetWithTimeoutSelect(p) == SelectEntry(p, "GetWithTimeout")
GetWithTimeoutRecv(p) == ReceiveCase(p, "GetWithTimeout")
GetWithTimeoutMark(p) == MarkInUse(p, "GetWithTimeout")
\* (faulty variant: the select has no timer case, as in Get)
GetWithTimeoutNoTimer(p) == FALSE
\* (faulty variant: the timer case takes a holder off the queue and drops it)
GetWithTimeoutTimerDropsHolder(p) ==
    /\ At(p, "GetWithTimeoutRecv")
    /\ chanBuf' = IF chanBuf = <<>> THEN chanBuf ELSE Tail(chanBuf)
    /\ Return(p, NilConn, ErrTimedOut)
    /\ UNCHANGED <<op, arg, ch, holding, ops, newVars, conns, factory, chanClosed,
                   InUse, histVars, adapterVars>>
\* case <-timer.C: return nil, ErrTimedOut (the timer may fire at any moment)
GetWithTimeoutTimer(p) ==
    /\ At(p, "GetWithTimeoutRecv")
    /\ Return(p, NilConn, ErrTimedOut)
    /\ UNCHANGED <<op, arg, ch, holding, ops, newVars, progVars, histVars, adapterVars>>

\* ------------------------------------------------------------- Put
\* if conn == nil { return errors.New(...) }; if c.conns == nil ... { return nil }
\* c.conns == nil, as Put reads it
\* (faulty variant: Put does not look at the closed pool)
PutClosedCheckMissing == FALSE
PutClosedCheck == conns = NilChan

Put(p, h) ==
    /\ Begin(p, "Put", h)
    /\ holding' = Set(holding, p, holding[p] \ {h})
    /\ IF h = NilConn
          THEN Return(p, NilConn, ErrNilConn)
          ELSE IF PutClosedCheck
                  THEN Return(p, NilConn, NoErr)
                  ELSE /\ pc' = Set(pc, p, "PutInUse")
                       /\ ret' = Set(ret, p, NilConn)
                       /\ err' = Set(err, p, NoErr)
    /\ UNCHANGED <<ch, newVars, progVars, closeState, everSent>>

\* the read of conn.InUse in Put
\* (faulty variant: Put does not look at the flag)
HolderInUseUnchecked(h) == TRUE
HolderInUse(h) == InUse[h]

\* ... || !conn.InUse { return nil }
PutInUse(p) ==
    /\ At(p, "PutInUse")
    /\ IF HolderInUse(arg[p])
          THEN Goto(p, "PutSelect")
          ELSE Return(p, NilConn, NoErr)
    /\ UNCHANGED <<op, arg, ch, holding, ops, newVars, progVars, histVars, adapterVars>>

\* select: the channel expression c.conns is evaluated on entry
PutSelect(p) ==
    /\ At(p, "PutSelect")
    /\ ch' = Set(ch, p, conns)
    /\ Goto(p, "PutSend")
    /\ UNCHANGED <<op, arg, holding, ops, newVars, progVars, histVars, adapterVars>>

\* case c.conns <- conn (a send on a closed channel panics)
PutSend(p) ==
    /\ At(p, "PutSend")
    /\ SendReady(ch[p])
    /\ IF chanClosed
          THEN Goto(p, "panic") /\ UNCHANGED <<chanBuf, everSent>>
          ELSE /\ chanBuf' = SendBuf(arg[p])
               /\ everSent' = TRUE
               /\ Goto(p, "PutClear")
    /\ UNCHANGED <<op, arg, ch, holding, ops, newVars, conns, factory, chanClosed, InUse,
                   closeState, late, buf0, out0, tookLate, prev, adapterVars>>

\* conn.InUse = false; return nil
PutClear(p) ==
    /\ At(p, "PutClear")
    /\ InUse' = [InUse EXCEPT ![arg[p]] = ReleasedInUse]
    /\ Return(p, NilConn, NoErr)
    /\ UNCHANGED <<op, arg, ch, holding, ops, newVars, conns, factory, chanBuf, chanClosed,
                   histVars, adapterVars>>

\* a caller releases a holder it got from Get or GetWithTimeout
PutHeld(p) == \E h \in holding[p] : Put(p, h)
\* a caller passes nil, a holder of the pool that it does not hold, or a holder
\* that is not of this pool
PutOther(p) ==
    \E h \in ({NilConn} \cup (1..maxCap) \cup ForeignHolders) \ holding[p] : Put(p, h)

\* ------------------------------------------------------------- Len
\* return len(c.conns)
PoolLen(p) ==
    /\ Begin(p, "Len", NilConn)
    /\ Return(p, ChanLen(conns), NoErr)
    /\ UNCHANGED <<ch, holding, newVars, progVars, closeState, everSent>>

\* ------------------------------------------------------------- Close
\* where Close goes from the first half of  if c.conns != nil && ...
\* (faulty variant: Close goes to its receive with no check)
CloseEntryUnchecked == "CloseSelect"
CloseEntry == IF conns # NilChan THEN "CloseLen" ELSE "CloseNil"

\* if c.conns != nil && ...
Close(p) ==
    /\ Begin(p, "Close", NilConn)
    /\ closeState' = IF closeState = "none" THEN "called" ELSE closeState
    /\ pc' = Set(pc, p, CloseEntry)
    /\ ret' = Set(ret, p, NilConn)
    /\ err' = Set(err, p, NoErr)
    /\ UNCHANGED <<ch, holding, newVars, progVars, everSent>>

\* ... && len(c.conns) > 0
CloseLen(p) ==
    /\ At(p, "CloseLen")
    /\ Goto(p, IF ChanLen(conns) > 0 THEN "CloseSelect" ELSE "CloseNil")
    /\ UNCHANGED <<op, arg, ch, holding, ops, newVars, progVars, histVars, adapterVars>>

\* the channel expression of  _, isPoolOpen := <-c.conns
CloseSelect(p) ==
    /\ At(p, "CloseSelect")
    /\ ch' = Set(ch, p, conns)
    /\ Goto(p, "CloseRecv")
    /\ UNCHANGED <<op, arg, holding, ops, newVars, progVars, histVars, adapterVars>>

\* (faulty variant: Close takes every holder off the queue)
CloseRecvDrainsAll(p) ==
    /\ At(p, "CloseRecv")
    /\ RecvReady(ch[p])
    /\ chanBuf' = <<>>
    /\ Goto(p, IF chanBuf # <<>> THEN "CloseNil" ELSE "panic")
    /\ UNCHANGED <<op, arg, ch, holding, ops, newVars, conns, factory, chanClosed, InUse,
                   histVars, adapterVars>>

\* _, isPoolOpen := <-c.conns; if !isPoolOpen { close(c.conns) }
\* (isPoolOpen is false only for a closed channel, and closing that panics)
CloseRecv(p) ==
    /\ At(p, "CloseRecv")
    /\ RecvReady(ch[p])
    /\ chanBuf' = RecvRest
    /\ Goto(p, IF chanBuf # <<>> THEN "CloseNil" ELSE "panic")
    /\ UNCHANGED <<op, arg, ch, holding, ops, newVars, conns, factory, chanClosed, InUse,
                   histVars, adapterVars>>

\* (faulty variant: Close also closes the channel, close(c.conns))
CloseNilClosesChannel(p) ==
    /\ At(p, "CloseNil")
    /\ conns' = ClosedConns
    /\ factory' = NilFactory
    /\ chanClosed' = TRUE
    /\ closeState' = "returned"
    /\ Return(p, NilConn, NoErr)
    /\ UNCHANGED <<op, arg, ch, holding, ops, newVars, chanBuf, InUse,
                   everSent, late, buf0, out0, tookLate, prev, adapterVars>>

\* c.conns = nil; c.factory = nil
CloseNil(p) ==
    /\ At(p, "CloseNil")
    /\ conns' = ClosedConns
    /\ factory' = NilFactory
    /\ closeState' = "returned"
    /\ Return(p, NilConn, NoErr)
    /\ UNCHANGED <<op, arg, ch, holding, ops, newVars, chanBuf, chanClosed, InUse,
                   everSent, late, buf0, out0, tookLate, prev, adapterVars>>

\* ------------------------------------------------------------- specifications
NewChannelPool == NewChannelPoolFill \/ NewChannelPoolFail \/ NewChannelPoolReturn

\* the steps inside a Get, GetWithTimeout or Put that has started
RunAcquireRelease(p) ==
    \/ GetSelect(p) \/ GetRecv(p) \/ GetMark(p)
    \/ GetWithTimeoutSelect(p) \/ GetWithTimeoutRecv(p) \/ GetWithTimeoutMark(p)
    \/ GetWithTimeoutTimer(p)
    \/ PutInUse(p) \/ PutSelect(p) \/ PutSend(p) \/ PutClear(p)

\* the steps inside a call that has started
Run(p) ==
    \/ RunAcquireRelease(p)
    \/ CloseLen(p) \/ CloseSelect(p) \/ CloseRecv(p) \/ CloseNil(p)

\* the calls of a caller that releases what it acquired, once
Call(p) == Get(p) \/ GetWithTimeout(p) \/ PutHeld(p) \/ PoolLen(p) \/ Close(p)

Next == NewChannelPool \/ \E p \in Callers : Call(p) \/ Run(p)

\* concurrent callers
Spec == Init /\ [][Next]_vars

\* concurrent callers; a started call is scheduled again and again, and the timer
\* of GetWithTimeout fires
FairSpec == Spec /\ \A p \in Callers : WF_vars(Run(p))

\* callers that may also pass to Put what they do not hold
NextAny == Next \/ \E p \in Callers : PutOther(p)

\* one caller: no call runs concurrently with another
SeqSpec == InitSeq /\ [][NextAny]_vars

\* concurrent callers that may pass anything to Put
AnySpec == Init /\ [][NextAny]_vars

\* a caller passes to Put a holder of the pool that it does not hold
PutShared(p) == \E h \in (1..maxCap) \ holding[p] : Put(p, h)

\* concurrent callers that share holders of the pool
NextShared == Next \/ \E p \in Callers : PutShared(p)
SharedSpec == Init /\ [][NextShared]_vars

\* concurrent callers, the first of which makes one call more
InitLong == InitWith([p \in Callers |-> IF p = 1 THEN MaxOps + 1 ELSE MaxOps])
LongFairSpec == InitLong /\ [][Next]_vars /\ \A p \in Callers : WF_vars(Run(p))

\* ------------------------------------------------------------- the HTTP adapter
\* the timeouts an adapter is made with: none (NewPooledHttpClient) or some
Timeouts == {0, 1}
\* the request methods of the adapter
Kinds == {"Get", "Post", "Do"}

poolVars == <<newVars, progVars, callVars, histVars>>

\* NewPooledHttpClient / NewPooledHttpClientWithTimeout, after NewChannelPool
NewPooledHttpClient ==
    /\ newPc = "done" /\ adPc = "new"
    /\ adPc' = "done"
    /\ \E t \in Timeouts : timeout' = t
    /\ UNCHANGED <<OutstandingConns, rq, poolVars>>

\* caller p is at label l of its adapter request, outside any call on the pool
InRequest(p, l) == Alive /\ pc[p] = "idle" /\ rq[p].pc = l

\* caller p enters Get, Post or Do of the adapter: connHolder, err := c.getConn()
Request(p, k) ==
    /\ adPc = "done" /\ newRet = "pool"
    /\ Alive /\ pc[p] = "idle" /\ rq[p].pc \in {"idle", "returned"}
    /\ ops[p] >= 2
    /\ rq' = Set(rq, p, [NoRequest EXCEPT !.pc = "getConn", !.kind = k, !.calls = ops[p]])
    /\ UNCHANGED <<adPc, timeout, OutstandingConns, poolVars>>

\* getConn: connHolder, err = c.connPool.Get()
GetConnGet(p) ==
    /\ InRequest(p, "getConn") /\ ops[p] = rq[p].calls
    /\ ~(timeout > 0)
    /\ Get(p)

\* getConn: connHolder, err = c.connPool.GetWithTimeout(c.timeout)
GetConnGetWithTimeout(p) ==
    /\ InRequest(p, "getConn") /\ ops[p] = rq[p].calls
    /\ timeout > 0
    /\ GetWithTimeout(p)

\* getConn after the pool's call returned: count the holder, or pass the error
\* on; the request has deferred putConn, and returns nil, err on an error
GetConnReturn(p) ==
    /\ InRequest(p, "getConn") /\ ops[p] = rq[p].calls - 1
    /\ IF err[p] # NoErr
          THEN /\ rq' = Set(rq, p, [rq[p] EXCEPT !.pc = "putConn", !.conn = ret[p],
                                                 !.err = err[p]])
               /\ UNCHANGED OutstandingConns
          ELSE /\ OutstandingConns' = OutstandingConns + 1
               /\ rq' = Set(rq, p, [rq[p] EXCEPT !.pc = "use", !.conn = ret[p]])
    /\ UNCHANGED <<adPc, timeout, poolVars>>

\* the HTTP call on the holder's client. When it fails, Get returns the error;
\* Post and Do go on to resp.Body with resp nil, which panics.
UseConn(p) ==
    /\ InRequest(p, "use")
    /\ \E ok \in BOOLEAN :
          rq' = Set(rq, p, [rq[p] EXCEPT
                    !.pc = "putConn",
                    !.err = IF ok THEN NoErr ELSE HttpErr,
                    !.panicking = ~ok /\ rq[p].kind \in {"Post", "Do"}])
    /\ UNCHANGED <<adPc, timeout, OutstandingConns, poolVars>>

\* the request is over: it returns, or its panic goes on and ends the program
RequestEnds(p) ==
    /\ rq' = Set(rq, p, [rq[p] EXCEPT !.pc = "returned"])
    /\ pc' = Set(pc, p, IF rq[p].panicking THEN "panic" ELSE pc[p])
    /\ UNCHANGED <<adPc, timeout, newVars, progVars, histVars,
                   op, arg, ch, ret, err, holding, ops>>

\* the deferred putConn: if conn == nil || !conn.InUse { return }
PutConnCheck(p) ==
    /\ InRequest(p, "putConn")
    /\ IF rq[p].conn = NilConn \/ ~InUse[rq[p].conn]
          THEN RequestEnds(p)
          ELSE /\ rq' = Set(rq, p, [rq[p] EXCEPT !.pc = "Put", !.calls = ops[p]])
               /\ UNCHANGED <<adPc, timeout, poolVars>>
    /\ UNCHANGED OutstandingConns

\* putConn: c.connPool.Put(conn)
PutConnPut(p) ==
    /\ InRequest(p, "Put") /\ ops[p] = rq[p].calls
    /\ Put(p, rq[p].conn)

\* putConn: atomic.AddInt32(&c.OutstandingConns, -1), and the request is over
PutConnReturn(p) ==
    /\ InRequest(p, "Put") /\ ops[p] = rq[p].calls - 1
    /\ OutstandingConns' = OutstandingConns - 1
    /\ RequestEnds(p)

\* a caller of the adapter
AdapterCall(p) ==
    \/ \E k \in Kinds : Request(p, k)
    \/ GetConnGet(p) \/ GetConnGetWithTimeout(p) \/ GetConnReturn(p)
    \/ UseConn(p)
    \/ PutConnCheck(p) \/ PutConnPut(p) \/ PutConnReturn(p)

AdapterNext ==
    \/ NewChannelPool \/ NewPooledHttpClient
    \/ \E p \in Callers : AdapterCall(p) \/ RunAcquireRelease(p)

\* concurrent requests on one adapter
AdapterSpec == Init /\ [][AdapterNext]_vars

\* ------------------------------------------------------------- properties
\* Len() as a caller would see it now
LenNow == ChanLen(conns)

\* the pool was returned by NewChannelPool and no Close has started
Open == newRet = "pool" /\ conns = Chan /\ closeState = "none"

\* the holders that are checked out: received by a Get or GetWithTimeout and
\* not yet given back by their holder (sent to the channel by its Put, or dropped
\* by a Put that returned without sending)
CheckedOut == {h \in 1..maxCap : IsCheckedOut(h)}

C2_NeverHeldByTwo ==
    \A p, q \in Callers : p # q => holding[p] \cap holding[q] = {}

\* two callers hold holders at the same time
C2_Witness ==
    \E p, q \in Callers : p # q /\ holding[p] # {} /\ holding[q] # {}

\* every holder has been returned by a Get or GetWithTimeout, no Put has sent
\* anything back and no Close has started
AllOut ==
    /\ Open /\ ~everSent
    /\ Cardinality(UNION {holding[p] : p \in Callers}) = maxCap

\* the step is the return of a Get call of caller p
GetReturns(p) ==
    /\ op'[p] = "Get" /\ pc'[p] = "idle"
    /\ pc[p] # "idle" \/ ops'[p] # ops[p]

\* C3: after N successful Gets and no Put on a pool of capacity N, Len() is 0
\* and no further Get returns, neither a holder nor an error.
C3_ExhaustedGetBlocks ==
    /\ [](AllOut => LenNow = 0)
    /\ [][AllOut => \A p \in Callers : ~GetReturns(p)]_vars

\* the pool is exhausted and another Get waits in its select
C3_Witness ==
    /\ AllOut /\ maxCap > 0
    /\ \E p \in Callers : op[p] = "Get" /\ pc[p] = "GetRecv" /\ ch[p] = Chan

\* C4: a Get that waits on an exhausted pool (of capacity 1 or more, every
\* holder checked out) when Close is called eventually returns ErrClosed.
C4_WaitingGetReturnsErrClosed ==
    \A p \in Callers :
        (/\ op[p] = "Get" /\ pc[p] = "GetRecv" /\ ch[p] = Chan
         /\ maxCap > 0 /\ chanBuf = <<>> /\ closeState # "none"
         /\ Cardinality(UNION {holding[q] : q \in Callers}) = maxCap)
            ~> (op[p] = "Get" /\ pc[p] = "idle" /\ err[p] = ErrClosed)

\* C5: once a Close has returned, Len() is 0, and every Get or GetWithTimeout
\* that starts from then on returns (nil, ErrClosed) at once.
C5_AfterCloseGetFailsLenZero ==
    /\ closeState = "returned" => LenNow = 0
    /\ \A p \in Callers :
          /\ (late[p] /\ op[p] \in {"Get", "GetWithTimeout"}) =>
                (pc[p] = "idle" /\ ret[p] = NilConn /\ err[p] = ErrClosed)
          /\ (late[p] /\ op[p] = "Len") => ret[p] = 0

\* a Get started after Close returned while the channel still buffers a holder
C5_Witness ==
    \E p \in Callers :
        late[p] /\ op[p] \in {"Get", "GetWithTimeout"} /\ chanBuf # <<>>

\* the last call of caller p was o and has returned
Returned(p, o) == op[p] = o /\ pc[p] = "idle"

\* a GetWithTimeout of caller p leaves its select while the queue is empty
LeavesSelectOnEmpty(p) ==
    pc[p] = "GetWithTimeoutRecv" /\ chanBuf = <<>> /\ pc'[p] # pc[p]

\* C6: GetWithTimeout on an open, exhausted pool to which no holder is released
\* returns (nil, ErrTimedOut), and it does return.
C6_TimeoutOnExhausted ==
    /\ [](\A p \in Callers :
            (Returned(p, "GetWithTimeout") /\ buf0[p] = <<>> /\ ~everSent
                 /\ closeState = "none")
              => (ret[p] = NilConn /\ err[p] = ErrTimedOut))
    /\ [][\A p \in Callers :
            LeavesSelectOnEmpty(p)
              => (pc'[p] = "idle" /\ ret'[p] = NilConn /\ err'[p] = ErrTimedOut)]_vars
    /\ \A p \in Callers : (pc[p] = "GetWithTimeoutRecv") ~> (pc[p] = "idle")

\* a GetWithTimeout timed out on an open pool whose holders are all checked out
C6_Witness ==
    \E p \in Callers :
        /\ Returned(p, "GetWithTimeout") /\ err[p] = ErrTimedOut
        /\ buf0[p] = <<>> /\ ~everSent /\ Open /\ maxCap > 0

\* no caller has called anything yet
Fresh == \A p \in Callers : op[p] = "none"

\* C7: with a factory that never fails, NewChannelPool(N, factory) returns a pool
\* and no error; right after, Len() is N and every queued holder has InUse false.
C7_ConstructionFillsPool ==
    (newPc = "done" /\ factoryErr = "") =>
        /\ newRet = "pool" /\ newErr = NoErr
        /\ Fresh =>
              /\ LenNow = maxCap
              /\ \A i \in 1..Len(chanBuf) : ~InUse[chanBuf[i]]

\* a pool of the largest capacity has just been made
C7_Witness == newRet = "pool" /\ maxCap = MaxCap /\ Fresh

\* the error e carries the text of the error cause
Wraps(e, cause) == Len(e) >= 2 /\ e[Len(e)] = cause

\* C8: when a factory call fails, NewChannelPool returns nil and an error that
\* wraps the factory's error, and the factory is not called again.
C8_FactoryFailureFailsConstruction ==
    /\ [](factoryErr # "" =>
            (newPc = "done" /\ newRet = "nil" /\ Wraps(newErr, factoryErr) /\ Fresh))
    /\ [][factoryErr # "" => factoryCalls' = factoryCalls]_vars

\* the factory failed after it had succeeded once
C8_Witness == factoryErr # "" /\ newI >= 1 /\ factoryCalls = newI + 1

\* C9: with no concurrent call, a successful Get followed by Put of the holder it
\* returned leaves Len() as it was before the Get, and the holder not in use.
C9_GetPutRoundTrip ==
    \A p \in Callers :
        (/\ Returned(p, "Put") /\ arg[p] # NilConn /\ conns = Chan
         /\ prev[p].op \in {"Get", "GetWithTimeout"}
         /\ prev[p].err = NoErr /\ prev[p].ret = arg[p])
          => (LenNow = Len(prev[p].buf0) /\ ~InUse[arg[p]])

\* a round trip on a pool that had a free holder and one checked out
C9_Witness ==
    \E p \in Callers :
        /\ Returned(p, "Put") /\ arg[p] # NilConn /\ conns = Chan
        /\ prev[p].op = "Get" /\ prev[p].err = NoErr /\ prev[p].ret = arg[p]
        /\ Len(prev[p].buf0) = 1 /\ maxCap = 2

\* C10: a second Put in a row of the same holder returns nil and leaves the
\* queue as it found it.
C10_SecondPutIsNoOp ==
    \A p \in Callers :
        (/\ Returned(p, "Put") /\ arg[p] # NilConn
         /\ prev[p].op = "Put" /\ prev[p].arg = arg[p])
          => (err[p] = NoErr /\ chanBuf = buf0[p])

\* the first Put of an acquired holder sent it to the queue, the second did not
C10_Witness ==
    \E p \in Callers :
        /\ Returned(p, "Put") /\ arg[p] # NilConn /\ conns = Chan
        /\ prev[p].op = "Put" /\ prev[p].arg = arg[p]
        /\ buf0[p] = Append(prev[p].buf0, arg[p])
        /\ chanBuf = buf0[p]

\* a Put call of caller p with a holder that was not checked out of this pool
\* when the call started, on a pool no Close was called on
PutOfNotCheckedOut(p) ==
    /\ op[p] = "Put" /\ arg[p] # NilConn /\ ~out0[p]
    /\ closeState = "none" /\ maxCap > 0

\* C11: Put of a holder that is not checked out of the pool (a fresh holder, or
\* one checked out of another pool) on an open pool is a no-op: it never gets to
\* the send, it returns nil, and the queue stays as the call found it.
C11_PutOfForeignHolderIsNoOp ==
    \A p \in Callers :
        PutOfNotCheckedOut(p) =>
            /\ pc[p] \notin {"PutSelect", "PutSend", "PutClear"}
            /\ chanBuf = buf0[p]
            /\ err[p] = NoErr

\* caller p starts a call o with argument a in this step
Starts(p, o, a) == ops'[p] # ops[p] /\ op'[p] = o /\ arg'[p] = a

\* C12: Put(nil) returns an error that is not nil, whatever the state of the pool
\* and of the other callers, and changes neither the queue nor any InUse flag.
C12_PutNilIsRejected ==
    /\ [](\A p \in Callers :
            (Returned(p, "Put") /\ arg[p] = NilConn) => err[p] # NoErr)
    /\ [][\A p \in Callers :
            Starts(p, "Put", NilConn) =>
                /\ pc'[p] = "idle"
                /\ UNCHANGED <<conns, chanBuf, chanClosed, InUse>>]_vars

\* Put(nil) was rejected on an open pool while another caller was at its send
C12_Witness ==
    \E p, q \in Callers :
        /\ Returned(p, "Put") /\ arg[p] = NilConn /\ err[p] = ErrNilConn
        /\ conns = Chan /\ chanBuf # <<>> /\ pc[q] = "PutSend"

\* C13: Put of a holder that is not nil, called after Close has returned, returns
\* nil at once, sends nothing to the queue, and Len() stays 0.
C13_PutAfterCloseIsNoOp ==
    /\ [](\A p \in Callers :
            (late[p] /\ op[p] = "Put" /\ arg[p] # NilConn) =>
                (pc[p] = "idle" /\ err[p] = NoErr /\ LenNow = 0))
    /\ [][\A p \in Callers : \A h \in AllHolders :
            (closeState = "returned" /\ Starts(p, "Put", h)) =>
                UNCHANGED <<conns, chanBuf, InUse>>]_vars

\* a holder still in use was put after Close had returned; the abandoned channel
\* still has a holder in its buffer
C13_Witness ==
    \E p \in Callers :
        /\ late[p] /\ Returned(p, "Put") /\ arg[p] \in 1..maxCap
        /\ InUse[arg[p]] /\ chanBuf # <<>>

\* caller p is inside a Put call
InPut(p) == op[p] = "Put" /\ pc[p] # "idle"

\* C14: while no Close is called and callers put only holders they got from the
\* pool, once each, a Put is never stopped at its send, and every Put returns.
C14_PutNeverBlocks ==
    /\ [](\A p \in Callers :
            (closeState = "none" /\ pc[p] = "PutSend") => SendReady(ch[p]))
    /\ \A p \in Callers :
            (closeState = "none" /\ InPut(p)) ~> (pc[p] = "idle" \/ closeState # "none")

\* a Put is at its send with every other holder of a pool of two in the queue,
\* while the other caller is inside a Get
C14_Witness ==
    \E p, q \in Callers :
        /\ closeState = "none" /\ pc[p] = "PutSend" /\ maxCap = 2
        /\ Len(chanBuf) = maxCap - 1
        /\ pc[q] \in {"GetSelect", "GetRecv", "GetWithTimeoutSelect", "GetWithTimeoutRecv"}

\* a Close call of caller p that started after a Close had returned
LateClose(p) == late[p] /\ op[p] = "Close"

\* C15: Close of a pool that is already closed does not panic, is never stopped
\* at a receive, returns, changes neither the queue nor any flag, and leaves the
\* pool closed with Len() == 0.
C15_CloseOfClosedIsNoOp ==
    /\ [](\A p \in Callers :
            LateClose(p) =>
                /\ pc[p] # "panic"
                /\ pc[p] = "CloseRecv" => RecvReady(ch[p])
                /\ conns = NilChan /\ LenNow = 0)
    /\ [][\A p \in Callers :
            (LateClose(p)' /\ pc'[p] # pc[p]) =>
                UNCHANGED <<conns, chanBuf, chanClosed, InUse>>]_vars
    /\ \A p \in Callers : LateClose(p) ~> (pc[p] = "idle")

\* a second Close has returned; the abandoned channel still has a holder
C15_Witness ==
    \E p \in Callers :
        /\ LateClose(p) /\ pc[p] = "idle" /\ prev[p].op # "Close"
        /\ conns = NilChan /\ chanBuf # <<>>

\* caller p was a worker and is done: it made two calls, a Get that gave it a
\* holder and then a Put of that holder, and the Put has returned
WorkerDone(p) ==
    /\ ops[p] = MaxOps - 2
    /\ Returned(p, "Put") /\ arg[p] # NilConn
    /\ prev[p].op = "Get" /\ prev[p].err = NoErr /\ prev[p].ret = arg[p]

C17_HeldHolderIsInUse ==
    \A p \in Callers : \A h \in holding[p] : InUse[h]

\* how many times holder h is in the queue
TimesQueued(h) == Cardinality({i \in DOMAIN chanBuf : chanBuf[i] = h})

\* a Get or GetWithTimeout has received holder h and has not yet set its flag
BeingAcquired(h) ==
    \E p \in Callers : arg[p] = h /\ pc[p] \in {"GetMark", "GetWithTimeoutMark"}

\* C18: while the pool is open, every holder whose InUse is false is in the
\* queue exactly once. (Stated for the holders that no Get is in the middle of
\* taking, which the claim includes too.)
C18_NotInUseIsQueuedOnce ==
    Open => \A h \in 1..maxCap :
                (~InUse[h] /\ ~BeingAcquired(h)) => TimesQueued(h) = 1

\* C19: once Close has returned the pool stays closed, and no Get or
\* GetWithTimeout returns a holder from then on, the calls that were already
\* running included. (Stated for the calls that take their holder from the queue
\* after Close has returned, which the claim includes.)
C19_CloseIsOneWay ==
    /\ [][closeState = "returned" => conns' = NilChan]_vars
    /\ [](\A p \in Callers :
            (op[p] \in {"Get", "GetWithTimeout"} /\ pc[p] = "idle" /\ tookLate[p])
                => ret[p] = NilConn)

\* C20: a Close call is never stopped at its receive: when it gets there the
\* channel it reads has a holder for it. (Len is a single read and returns.)
C20_CloseNeverBlocks ==
    \A p \in Callers : pc[p] = "CloseRecv" => RecvReady(ch[p])


\* C21: on a pool of capacity above zero that stays open, when every caller that
\* holds a holder always puts it back in the end, a Get that is running returns
\* a holder in the end.
C21_WaitingGetIsServed ==
    (/\ [](closeState = "none" /\ maxCap > 0)
     /\ \A q \in Callers : []<>(holding[q] = {}))
        => \A p \in Callers :
               (op[p] = "Get" /\ pc[p] # "idle") ~> (pc[p] = "idle" /\ ret[p] # NilConn)

\* the holders the pool or a caller has at hand
KnownHolders ==
    ({chanBuf[i] : i \in DOMAIN chanBuf} \cup UNION {holding[p] : p \in Callers}
        \cup {arg[p] : p \in Callers}) \ {NilConn}

\* C22: a pool that NewChannelPool returned was made with exactly maxCap factory
\* calls, no call on the pool invokes the factory after construction, and the
\* holders that exist for the pool are never more than maxCap.
C22_FactoryCalledCapacityTimes ==
    /\ [](newRet = "pool" => factoryCalls = maxCap)
    /\ [][newPc = "done" => factoryCalls' = factoryCalls]_vars
    /\ [](KnownHolders \subseteq 1..maxCap)

\* a pool of two was used and closed: a Get returned a holder, a Close returned
C22_Witness ==
    /\ newRet = "pool" /\ maxCap = 2 /\ factoryCalls = 2
    /\ \E p, q \in Callers :
          /\ Returned(p, "Get") /\ ret[p] # NilConn
          /\ Returned(q, "Close") /\ closeState = "returned"

\* caller p's last call was a Put of a checked-out holder, made when the pool
\* was open and its queue empty
PutOnExhausted(c) ==
    /\ c.op = "Put" /\ c.arg # NilConn /\ c.out0 /\ c.buf0 = <<>>
    /\ closeState = "none" /\ maxCap > 0

\* caller p's call as a record
ThisCall(p) ==
    [op |-> op[p], arg |-> arg[p], ret |-> ret[p], err |-> err[p], buf0 |-> buf0[p],
     out0 |-> out0[p]]

\* C23: with no other call running, Put of a checked-out holder h on an open
\* pool with an empty queue makes Len() 1, and the Get that follows is not held
\* up at its receive and returns h, with InUse true.
C23_PutThenGetOnExhausted ==
    \A p \in Callers :
        /\ (pc[p] = "idle" /\ PutOnExhausted(ThisCall(p))) =>
               (LenNow = 1 /\ chanBuf = <<arg[p]>>)
        /\ (op[p] = "Get" /\ PutOnExhausted(prev[p])) =>
               /\ pc[p] = "GetRecv" => RecvReady(ch[p])
               /\ pc[p] = "idle" =>
                     (ret[p] = prev[p].arg /\ err[p] = NoErr /\ InUse[ret[p]])

\* on a pool of two with both holders out, one was put and the next Get gave it
C23_Witness ==
    \E p \in Callers :
        /\ Returned(p, "Get") /\ PutOnExhausted(prev[p]) /\ maxCap = 2
        /\ ret[p] = prev[p].arg /\ holding[p] = 1..2

\* the call of caller p gave a holder and no error
GaveHolder(p) == ret[p] # NilConn /\ err[p] = NoErr
\* the call of caller p gave no holder and error e
GaveError(p, e) == ret[p] = NilConn /\ err[p] = e /\ err[p] # NoErr

\* C24: Get returns a holder with a nil error, or nil with ErrClosed;
\* GetWithTimeout returns one of these or nil with ErrTimedOut; neither ever
\* returns nil with a nil error.
C24_AcquireReturnShapes ==
    \A p \in Callers :
        /\ Returned(p, "Get") => (GaveHolder(p) \/ GaveError(p, ErrClosed))
        /\ Returned(p, "GetWithTimeout") =>
               (GaveHolder(p) \/ GaveError(p, ErrClosed) \/ GaveError(p, ErrTimedOut))

\* a GetWithTimeout has timed out and a Get has found the pool closed
C24_Witness ==
    \E p, q \in Callers :
        /\ Returned(p, "GetWithTimeout") /\ GaveError(p, ErrTimedOut)
        /\ Returned(q, "Get") /\ GaveError(q, ErrClosed)

\* C25: the adapter's counter OutstandingConns is never above the capacity of
\* its pool.
C25_OutstandingNeverAboveCapacity == OutstandingConns <= maxCap

\* every caller made a request of the adapter and every request has returned
AllRequestsReturned == Alive /\ \A p \in Callers : rq[p].pc = "returned"

\* C26: once all the concurrent requests have returned, every holder they
\* acquired has been released: OutstandingConns is 0 and Len() is the capacity.
C26_AllReleasedAfterRequests ==
    AllRequestsReturned => (OutstandingConns = 0 /\ LenNow = maxCap)

\* callers p and q are two callers whose Put calls are of the same holder, which
\* was checked out when each of the calls started, on a pool no Close was called on
PutSameHolder(p, q) ==
    /\ p # q /\ closeState = "none"
    /\ op[p] = "Put" /\ op[q] = "Put"
    /\ arg[p] = arg[q] /\ arg[p] # NilConn
    /\ out0[p] /\ out0[q]

\* C27: when two callers put the same checked-out holder, the holder is in the
\* queue at most once and neither Put is stopped at its send.
C27_DoublePutEnqueuesOnce ==
    \A p, q \in Callers :
        PutSameHolder(p, q) =>
            /\ TimesQueued(arg[p]) <= 1
            /\ pc[p] = "PutSend" => SendReady(ch[p])

\* C28: a Put of a checked-out holder that is running when Close has been
\* called returns in the end, with a nil error.
C28_PutWithCloseReturns ==
    \A p \in Callers :
        (InPut(p) /\ out0[p] /\ closeState # "none") ~> (pc[p] = "idle" /\ err[p] = NoErr)

\* this step is a step of a GetWithTimeout call of caller p
StepOfGetWithTimeout(p) ==
    op'[p] = "GetWithTimeout" /\ <<pc[p], ops[p]>>' # <<pc[p], ops[p]>>

\* C29: a GetWithTimeout that returns ErrTimedOut or ErrClosed has received no
\* holder and returns none, and none of its steps changes the queue or an InUse
\* flag.
C29_FailedGetWithTimeoutChangesNothing ==
    /\ [](\A p \in Callers :
            (Returned(p, "GetWithTimeout") /\ err[p] # NoErr) =>
                (arg[p] = NilConn /\ ret[p] = NilConn))
    /\ [][\A p \in Callers :
            (StepOfGetWithTimeout(p) /\ arg'[p] = NilConn) =>
                UNCHANGED <<conns, chanBuf, chanClosed, InUse, holding>>]_vars

\* a GetWithTimeout timed out although the queue of the open pool had a holder
C29_Witness ==
    \E p \in Callers :
        /\ Returned(p, "GetWithTimeout") /\ err[p] = ErrTimedOut
        /\ conns = Chan /\ chanBuf # <<>> /\ chanBuf = buf0[p]

\* C30: with its timer firing in the end, every GetWithTimeout call returns,
\* whatever Get, Put and Close calls run beside it.
C30_GetWithTimeoutReturns ==
    \A p \in Callers :
        (op[p] = "GetWithTimeout" /\ pc[p] # "idle") ~> (pc[p] = "idle")

\* a GetWithTimeout that entered its select after Close had cleared c.conns, and
\* so waited on the nil channel, has timed out
C30_Witness ==
    \E p \in Callers :
        /\ Returned(p, "GetWithTimeout") /\ err[p] = ErrTimedOut
        /\ ~late[p] /\ ch[p] = NilChan /\ closeState = "returned"

\* the statements that dereference conn: conn.InUse in Get, GetWithTimeout and Put
DerefsConn(p) ==
    pc[p] \in {"GetMark", "GetWithTimeoutMark", "PutInUse", "PutClear"}

\* C31: no call panics: no caller is ever at the panic of a send on a closed
\* channel or of a close of a closed or nil channel, and conn is never nil where
\* a call dereferences it. Put may be passed anything.
C31_NoPanic ==
    /\ Alive
    /\ \A p \in Callers : DerefsConn(p) => arg[p] # NilConn

\* a Put that was running when Close returned has sent its holder to the channel
\* that Close left behind
C31_Witness ==
    \E p \in Callers :
        /\ op[p] = "Put" /\ pc[p] = "PutClear" /\ ~late[p]
        /\ closeState = "returned" /\ conns = NilChan

\* C32: while the pool is open, every holder that is in the queue has InUse
\* false.
C32_QueuedHolderIsNotInUse ==
    Open => \A i \in DOMAIN chanBuf : ~InUse[chanBuf[i]]

\* this step is a step of a Close call of caller p
StepOfClose(p) == op'[p] = "Close" /\ <<pc[p], ops[p]>>' # <<pc[p], ops[p]>>

\* C33: the channel is never closed; the receive of a Close always gets a holder
\* (the channel reports open) and Close goes on to drop the reference, never to
\* close(c.conns); that receive takes one holder, and no other step of a Close
\* touches the queue.
C33_CloseTakesOneAndNeverCloses ==
    /\ [](~chanClosed)
    /\ [][\A p \in Callers :
            StepOfClose(p) =>
                IF pc[p] = "CloseRecv"
                   THEN pc'[p] = "CloseNil" /\ Len(chanBuf') = Len(chanBuf) - 1
                   ELSE chanBuf' = chanBuf]_vars

\* a Close of a full pool of two has returned: it took one holder, the other is
\* still in the channel, which is not closed
C33_Witness ==
    /\ closeState = "returned" /\ conns = NilChan /\ maxCap = 2
    /\ Len(chanBuf) = 1 /\ ~chanClosed
    /\ \A p \in Callers : holding[p] = {} /\ pc[p] = "idle" /\ op[p] \in {"none", "Close"}

====
